---- MODULE Spec2Model ----
(***************************************************************************)
(* Model of autogen_oaiapi/base/_key_manager.py: the in-memory API key     *)
(* store (DefaultAPIKeyStore) and the manager layer over it                *)
(* (BaseKeyManager).                                                       *)
(*                                                                         *)
(* Python values are represented as follows.                               *)
(*   str                 a TLA+ string                                     *)
(*   None                the record None                                   *)
(*   List[str]           a sequence of strings                             *)
(*   APIKeyEntry         a record with the four fields of the class        *)
(*   Dict[str, V]        _api_keys, whose iteration order is observable,   *)
(*                       is a sequence of <<key, value>> pairs in          *)
(*                       insertion order; _key2name, which is only ever    *)
(*                       indexed, is a function on the set of its keys     *)
(* APIKeyEntry objects are mutable and are stored by reference: the set    *)
(* alias holds the pairs of names whose dictionary slots refer to one and  *)
(* the same object, so that a mutation in place through one name is seen   *)
(* through the other.                                                      *)
(***************************************************************************)
EXTENDS Integers, Sequences, FiniteSets, TLC

\* ------------------------------------------------------------------ bounds

\* the number of secrets the key generator produces in the model
MaxIssued == 2

\* the secrets the key generator produces, in some order
GenSeq == <<"a", "b", "c">>
GenKeys == {GenSeq[i] : i \in 1..MaxIssued}
\* the key names under which callers store entries
Names == {"", "a"}
\* the secrets callers pass to the store themselves
Secrets == {"a", "b"}
\* the strings callers present as a secret or as a key name (both are Python str)
Strings == Names \cup Secrets \cup GenKeys
\* the model identifiers callers grant
Models == {"m"}
\* description: str | None; NoDescription stands for Python's None
NoDescription == "<None>"
Descriptions == {NoDescription, "d"}

\* Python's None
None == [none |-> TRUE]

VARIABLES
    _api_keys,   \* DefaultAPIKeyStore._api_keys: <<name, entry>> pairs, insertion order
    _key2name,   \* DefaultAPIKeyStore._key2name: secret -> name
    alias,       \* pairs {n1, n2} of names bound to the same APIKeyEntry object
    generated,   \* the secrets generate_key() has returned so far
    inserted,    \* history: the secrets passed to an insert operation so far
    inflight     \* the insert a writer thread is in the middle of: [op, todo]

vars == <<_api_keys, _key2name, alias, generated, inserted, inflight>>

\* ------------------------------------------------------- APIKeyEntry, dicts

\* class APIKeyEntry(BaseModel)
APIKeyEntry(api_key, allowed_models, is_active, description) ==
    [api_key |-> api_key, allowed_models |-> allowed_models,
     is_active |-> is_active, description |-> description]

\* x in list
InList(x, list) == \E i \in 1..Len(list) : list[i] = x

\* list.count(x)
Count(x, list) == Cardinality({i \in 1..Len(list) : list[i] = x})

\* the keys of an insertion-ordered dict
DictKeys(d) == {d[i][1] : i \in 1..Len(d)}

\* d.get(k, default)
DictGet(d, k, default) ==
    IF k \in DictKeys(d)
    THEN d[CHOOSE i \in 1..Len(d) : d[i][1] = k][2]
    ELSE default

\* d[k] = v that deletes an existing key and inserts it anew, at the end
DictSet_moving(d, k, v) ==
    Append(SelectSeq(d, LAMBDA item : item[1] # k), <<k, v>>)

\* d[k] = v : an existing key keeps its position, a new key goes last
DictSet(d, k, v) ==
    IF k \in DictKeys(d)
    THEN [i \in 1..Len(d) |-> IF d[i][1] = k THEN <<k, v>> ELSE d[i]]
    ELSE Append(d, <<k, v>>)

\* f[k] = v on a dict held as a function
FcnSet(f, k, v) == [x \in (DOMAIN f) \cup {k} |-> IF x = k THEN v ELSE f[x]]

\* f.get(k, default) on a dict held as a function
FcnGet(f, k, default) == IF k \in DOMAIN f THEN f[k] ELSE default

\* ------------------------------------------------------------ object identity

\* An APIKeyEntry argument is a reference [entry, obj]: the value of the object
\* and its identity, which is either a slot class of the store (an object the
\* store holds already) or the number of an object the caller built for the call.

\* n1 and n2 are slots of _api_keys that hold the same object
SameObject(al, n1, n2) == n1 = n2 \/ {n1, n2} \in al

\* the identity of the object slot n holds
Held(al, n) == [cls |-> {x \in Strings : SameObject(al, n, x)}, idx |-> 0]

\* the identity of the i-th object built for a call
Built(i) == [cls |-> {}, idx |-> i]

\* a reference to an object
Ref(entry, obj) == [entry |-> entry, obj |-> obj]

\* the object behind slot n is changed in place to e: every slot that holds
\* the object shows e
MutateInPlace(d, al, n, e) ==
    [i \in 1..Len(d) |-> IF SameObject(al, n, d[i][1]) THEN <<d[i][1], e>> ELSE d[i]]

\* the sharing among the slots once each name of items (<<name, reference>>
\* pairs with different names) is bound to its reference
Rebind(d, al, items) ==
    LET after == DictKeys(d) \cup {items[i][1] : i \in 1..Len(items)}
        obj(n) == IF \E i \in 1..Len(items) : items[i][1] = n
                  THEN items[CHOOSE i \in 1..Len(items) : items[i][1] = n][2].obj
                  ELSE Held(al, n)
    IN  {p \in {{n1, n2} : n1 \in after, n2 \in after} :
            Cardinality(p) = 2 /\ \A x \in p, y \in p : obj(x) = obj(y)}

\* ------------------------------------------------------- DefaultAPIKeyStore

\* a store: the two dicts of DefaultAPIKeyStore and the sharing among its
\* entries
Store(api_keys, key2name, al) == [api_keys |-> api_keys, key2name |-> key2name, alias |-> al]

\* what a method call gives: its return value and the store it leaves
Result(val, store) == [val |-> val, store |-> store]

\* DefaultAPIKeyStore.__init__
NewStore == Store(<<>>, <<>>, {})

\* self._api_keys.update(key_entries)
RECURSIVE DictUpdate(_, _)
DictUpdate(d, key_entries) ==
    IF key_entries = <<>> THEN d
    ELSE DictUpdate(DictSet(d, Head(key_entries)[1], Head(key_entries)[2].entry),
                    Tail(key_entries))

\* for key_name, entry in key_entries.items(): self._key2name[entry.api_key] = key_name
RECURSIVE IndexEntries(_, _)
IndexEntries(k2n, key_entries) ==
    IF key_entries = <<>> THEN k2n
    ELSE IndexEntries(FcnSet(k2n, Head(key_entries)[2].entry.api_key, Head(key_entries)[1]),
                      Tail(key_entries))

\* set_api_key_entry_batch that builds the reverse index anew from the mapping
set_api_key_entry_batch_reindexing(self, key_entries) ==
    Result(None,
           Store(DictUpdate(self.api_keys, key_entries),
                 IndexEntries(<<>>, key_entries),
                 Rebind(self.api_keys, self.alias, key_entries)))

\* DefaultAPIKeyStore.set_api_key_entry_batch; key_entries holds the items of
\* the mapping, <<name, reference>> pairs, in the mapping's order
set_api_key_entry_batch(self, key_entries) ==
    Result(None,
           Store(DictUpdate(self.api_keys, key_entries),
                 IndexEntries(self.key2name, key_entries),
                 Rebind(self.api_keys, self.alias, key_entries)))

\* DefaultAPIKeyStore.set_api_key_entry
set_api_key_entry(self, key_name, key_entry) ==
    Result(None,
           Store(DictSet(self.api_keys, key_name, key_entry.entry),
                 FcnSet(self.key2name, key_entry.entry.api_key, key_name),
                 Rebind(self.api_keys, self.alias, <<<<key_name, key_entry>>>>)))

\* DefaultAPIKeyStore.get_api_key_entry
get_api_key_entry(self, api_key) ==
    DictGet(self.api_keys, FcnGet(self.key2name, api_key, ""), None)

\* set_api_key that changes the entry a name has already, in place, and so
\* keeps its grants and its status
set_api_key_keeping(self, key_name, api_key, description) ==
    IF key_name \in DictKeys(self.api_keys)
    THEN LET entry == [DictGet(self.api_keys, key_name, None) EXCEPT
                            !.api_key = api_key, !.description = description]
         IN  Result(entry,
                    Store(MutateInPlace(self.api_keys, self.alias, key_name, entry),
                          FcnSet(self.key2name, api_key, key_name),
                          self.alias))
    ELSE LET entry == APIKeyEntry(api_key, <<>>, TRUE, description)
         IN  Result(entry,
                    Store(DictSet(self.api_keys, key_name, entry),
                          FcnSet(self.key2name, api_key, key_name),
                          Rebind(self.api_keys, self.alias, <<<<key_name, Ref(entry, Built(1))>>>>)))

\* set_api_key without its assignment to the reverse index
set_api_key_unindexed(self, key_name, api_key, description) ==
    LET entry == APIKeyEntry(api_key, <<>>, TRUE, description)
    IN  Result(entry,
               Store(DictSet(self.api_keys, key_name, entry),
                     self.key2name,
                     Rebind(self.api_keys, self.alias, <<<<key_name, Ref(entry, Built(1))>>>>)))

\* DefaultAPIKeyStore.set_api_key
set_api_key(self, key_name, api_key, description) ==
    LET entry == APIKeyEntry(api_key, <<>>, TRUE, description)
    IN  Result(entry,
               Store(DictSet(self.api_keys, key_name, entry),
                     FcnSet(self.key2name, api_key, key_name),
                     Rebind(self.api_keys, self.alias, <<<<key_name, Ref(entry, Built(1))>>>>)))

\* set_model_to_api_key without its test "model not in entry.allowed_models"
set_model_to_api_key_unchecked(self, key_name, model) ==
    IF key_name \notin DictKeys(self.api_keys)
    THEN Result(FALSE, self)
    ELSE Result(TRUE,
                [self EXCEPT !.api_keys =
                    MutateInPlace(@, self.alias, key_name,
                        [DictGet(@, key_name, None) EXCEPT
                            !.allowed_models = Append(@, model)])])

\* set_model_to_api_key that, like a defaultdict, gives an unknown name an entry
\* of its own and grants it the model
set_model_to_api_key_creating(self, key_name, model) ==
    IF key_name \notin DictKeys(self.api_keys)
    THEN Result(TRUE,
                [self EXCEPT !.api_keys =
                    Append(@, <<key_name, APIKeyEntry("", <<model>>, TRUE, NoDescription)>>)])
    ELSE LET entry == DictGet(self.api_keys, key_name, None)
         IN  IF ~InList(model, entry.allowed_models)
             THEN Result(TRUE,
                         [self EXCEPT !.api_keys =
                            MutateInPlace(@, self.alias, key_name,
                                [entry EXCEPT !.allowed_models = Append(@, model)])])
             ELSE Result(FALSE, self)

\* DefaultAPIKeyStore.set_model_to_api_key
set_model_to_api_key(self, key_name, model) ==
    IF key_name \notin DictKeys(self.api_keys)
    THEN Result(FALSE, self)
    ELSE LET entry == DictGet(self.api_keys, key_name, None)
         IN  IF ~InList(model, entry.allowed_models)
             THEN Result(TRUE,
                         [self EXCEPT !.api_keys =
                            MutateInPlace(@, self.alias, key_name,
                                [entry EXCEPT !.allowed_models = Append(@, model)])])
             ELSE Result(FALSE, self)

\* set_api_key_active_status that, like dict.setdefault, gives an unknown name
\* an entry to set the status of
set_api_key_active_status_creating(self, key_name, is_active) ==
    IF key_name \in DictKeys(self.api_keys)
    THEN Result(None,
                [self EXCEPT !.api_keys =
                    MutateInPlace(@, self.alias, key_name,
                        [DictGet(@, key_name, None) EXCEPT !.is_active = is_active])])
    ELSE Result(None,
                [self EXCEPT !.api_keys =
                    Append(@, <<key_name, APIKeyEntry("", <<>>, is_active, NoDescription)>>)])

\* DefaultAPIKeyStore.set_api_key_active_status
set_api_key_active_status(self, key_name, is_active) ==
    IF key_name \in DictKeys(self.api_keys)
    THEN Result(None,
                [self EXCEPT !.api_keys =
                    MutateInPlace(@, self.alias, key_name,
                        [DictGet(@, key_name, None) EXCEPT !.is_active = is_active])])
    ELSE Result(None, self)

\* DefaultAPIKeyStore.get_all_api_key_entries
get_all_api_key_entries(self) == self.api_keys

\* ----------------------------------------------------------- BaseKeyManager
\* self._key_store is the manager's only field: the store stands for the manager

\* BaseKeyManager.get_allow_models; an APIKeyEntry object is always true in
\* "if key_entry", whatever its fields, and None is false
get_allow_models(self, api_key) ==
    LET key_entry == get_api_key_entry(self, api_key)
    IN  IF key_entry # None THEN key_entry.allowed_models ELSE <<>>

\* BaseKeyManager.set_allow_model
set_allow_model(self, key_name, model) == set_model_to_api_key(self, key_name, model)

\* utils.generate_key: the secrets a call may return, none of them returned before
generate_key == GenKeys \ generated

\* BaseKeyManager.set_api_key, when generate_key() returns api_key
BaseKeyManager_set_api_key(self, key_name, api_key) ==
    Result(api_key, set_api_key(self, key_name, api_key, NoDescription).store)

\* the string BaseKeyManager.get_api_key returns for a miss
BASE_API_KEY == "BASE_API_KEY"

\* BaseKeyManager.get_api_key
get_api_key(self, key_name) ==
    LET key_entry == get_api_key_entry(self, key_name)
    IN  IF key_entry # None THEN key_entry.api_key ELSE BASE_API_KEY

\* ------------------------------------------------------------------ state

\* the store of the program
store == Store(_api_keys, _key2name, alias)

\* a call leaves the store st
Becomes(st) ==
    /\ _api_keys' = st.api_keys
    /\ _key2name' = st.key2name
    /\ alias' = st.alias

\* no insert is under way
Idle == [op |-> "idle", todo |-> <<>>]

\* DefaultAPIKeyStore.__init__
Init ==
    /\ _api_keys = NewStore.api_keys
    /\ _key2name = NewStore.key2name
    /\ alias = NewStore.alias
    /\ generated = {}
    /\ inserted = {}
    /\ inflight = Idle

\* ----------------------------------------------------------------- inputs

\* the allowed_models lists of the entries callers build
BuiltModels == {<<>>, <<"m", "m">>}

\* the entries callers build and pass to set_api_key_entry(_batch)
BuiltEntries ==
    {APIKeyEntry(k, ms, TRUE, NoDescription) : k \in Secrets, ms \in BuiltModels}

\* references to new objects, the i-th built for the call
NewRefs(i) == {Ref(e, Built(i)) : e \in BuiltEntries}

\* references to the objects the store holds
HeldRefs == {Ref(DictGet(_api_keys, n, None), Held(alias, n)) : n \in DictKeys(_api_keys)}

\* the mappings callers pass to set_api_key_entry_batch: the names differ, and
\* the second entry may be the very object that is the first
Batches ==
    {<<>>}
    \cup {<<<<n, r>>>> : n \in Names, r \in NewRefs(1) \cup HeldRefs}
    \cup {<<<<n1, r1>>, <<n2, r2>>>> :
            n1 \in Names, n2 \in Names, r1 \in NewRefs(1) \cup HeldRefs,
            r2 \in NewRefs(1) \cup NewRefs(2) \cup HeldRefs}

\* ------------------------------------------------------------------ calls

\* a mapping has each name once, and one object has one value
WellFormed(key_entries) ==
    /\ Len(key_entries) = 2 => key_entries[1][1] # key_entries[2][1]
    /\ Len(key_entries) = 2 /\ key_entries[2][2].obj = Built(1)
            => key_entries[2][2] = key_entries[1][2]

CallSetApiKeyEntryBatch ==
    \E key_entries \in Batches :
        /\ WellFormed(key_entries)
        /\ Becomes(set_api_key_entry_batch(store, key_entries).store)
        /\ inserted' = inserted \cup
                {key_entries[i][2].entry.api_key : i \in 1..Len(key_entries)}
        /\ UNCHANGED <<generated, inflight>>

CallSetApiKeyEntry ==
    \E key_name \in Names, key_entry \in NewRefs(1) \cup HeldRefs :
        /\ Becomes(set_api_key_entry(store, key_name, key_entry).store)
        /\ inserted' = inserted \cup {key_entry.entry.api_key}
        /\ UNCHANGED <<generated, inflight>>

CallSetApiKey ==
    \E key_name \in Names, api_key \in Secrets, description \in Descriptions :
        /\ Becomes(set_api_key(store, key_name, api_key, description).store)
        /\ inserted' = inserted \cup {api_key}
        /\ UNCHANGED <<generated, inflight>>

CallSetModelToApiKey ==
    \E key_name \in Strings, model \in Models :
        /\ Becomes(set_model_to_api_key(store, key_name, model).store)
        /\ UNCHANGED <<generated, inserted, inflight>>

CallSetApiKeyActiveStatus ==
    \E key_name \in Strings, is_active \in BOOLEAN :
        /\ Becomes(set_api_key_active_status(store, key_name, is_active).store)
        /\ UNCHANGED <<generated, inserted, inflight>>

CallSetAllowModel ==
    \E key_name \in Strings, model \in Models :
        /\ Becomes(set_allow_model(store, key_name, model).store)
        /\ UNCHANGED <<generated, inserted, inflight>>

CallManagerSetApiKey ==
    \E key_name \in Names, api_key \in generate_key :
        /\ Becomes(BaseKeyManager_set_api_key(store, key_name, api_key).store)
        /\ generated' = generated \cup {api_key}
        /\ inserted' = inserted \cup {api_key}
        /\ UNCHANGED inflight

Next ==
    \/ CallSetApiKey
    \/ CallManagerSetApiKey
    \/ CallSetApiKeyEntry
    \/ CallSetApiKeyEntryBatch
    \/ CallSetModelToApiKey
    \/ CallSetApiKeyActiveStatus
    \/ CallSetAllowModel

Spec == Init /\ [][Next]_vars

\* the programs that insert through set_api_key and through issuance alone
NextCreate ==
    \/ CallSetApiKey
    \/ CallSetModelToApiKey
    \/ CallSetApiKeyActiveStatus
    \/ CallSetAllowModel
    \/ CallManagerSetApiKey

SpecCreate == Init /\ [][NextCreate]_vars

\* ------------------------------------------------------------------ threads
\* The store takes no lock, so the statements of a call made on one thread
\* interleave with the calls of other threads. A writer thread runs one
\* mutating call at a time, statement by statement; a reader may call
\* get_api_key_entry or get_all_api_key_entries between any two statements,
\* that is, in any state. inflight.todo holds the <<secret, name>> assignments
\* to _key2name the writer has yet to make.

\* the first statement of an insert: the forward map is assigned (line 93, 104
\* or 132); the assignments to the reverse map, todo, are still to come
Begin(op, st, todo) ==
    /\ inflight = Idle
    /\ _api_keys' = st.api_keys
    /\ alias' = st.alias
    /\ inflight' = IF todo = <<>> THEN Idle ELSE [op |-> op, todo |-> todo]
    /\ inserted' = inserted \cup {todo[i][1] : i \in 1..Len(todo)}
    /\ UNCHANGED _key2name

\* set_api_key on the writer thread, up to line 132
ThreadSetApiKey ==
    \E key_name \in Names, api_key \in Secrets, description \in Descriptions :
        /\ Begin("set_api_key", set_api_key(store, key_name, api_key, description).store,
                 <<<<api_key, key_name>>>>)
        /\ UNCHANGED generated

\* BaseKeyManager.set_api_key on the writer thread, up to line 132
ThreadManagerSetApiKey ==
    \E key_name \in Names, api_key \in generate_key :
        /\ Begin("set_api_key", BaseKeyManager_set_api_key(store, key_name, api_key).store,
                 <<<<api_key, key_name>>>>)
        /\ generated' = generated \cup {api_key}

\* set_api_key_entry on the writer thread, up to line 104
ThreadSetApiKeyEntry ==
    \E key_name \in Names, key_entry \in NewRefs(1) \cup HeldRefs :
        /\ Begin("set_api_key_entry", set_api_key_entry(store, key_name, key_entry).store,
                 <<<<key_entry.entry.api_key, key_name>>>>)
        /\ UNCHANGED generated

\* set_api_key_entry_batch on the writer thread, up to line 93
ThreadSetApiKeyEntryBatch ==
    \E key_entries \in Batches :
        /\ WellFormed(key_entries)
        /\ Begin("set_api_key_entry_batch", set_api_key_entry_batch(store, key_entries).store,
                 [i \in 1..Len(key_entries) |->
                    <<key_entries[i][2].entry.api_key, key_entries[i][1]>>])
        /\ UNCHANGED generated

\* the next assignment to the reverse map (line 95, 105 or 133); the call
\* returns after the last
ThreadIndex ==
    /\ inflight # Idle
    /\ _key2name' = FcnSet(_key2name, Head(inflight.todo)[1], Head(inflight.todo)[2])
    /\ inflight' = IF Len(inflight.todo) = 1 THEN Idle
                   ELSE [inflight EXCEPT !.todo = Tail(@)]
    /\ UNCHANGED <<_api_keys, alias, generated, inserted>>

\* set_model_to_api_key (as such or through set_allow_model) on the writer
\* thread: it reads and writes the forward map alone
ThreadSetModelToApiKey ==
    \E key_name \in Strings, model \in Models :
        /\ inflight = Idle
        /\ Becomes(set_model_to_api_key(store, key_name, model).store)
        /\ UNCHANGED <<generated, inserted, inflight>>

\* set_api_key_active_status on the writer thread: one assignment
ThreadSetApiKeyActiveStatus ==
    \E key_name \in Strings, is_active \in BOOLEAN :
        /\ inflight = Idle
        /\ Becomes(set_api_key_active_status(store, key_name, is_active).store)
        /\ UNCHANGED <<generated, inserted, inflight>>

NextThreads ==
    \/ ThreadSetApiKey
    \/ ThreadManagerSetApiKey
    \/ ThreadSetApiKeyEntry
    \/ ThreadSetApiKeyEntryBatch
    \/ ThreadIndex
    \/ ThreadSetModelToApiKey
    \/ ThreadSetApiKeyActiveStatus

SpecThreads == Init /\ [][NextThreads]_vars

\* -------------------------------------------------------------- three names
\* The programs that insert under three names, through every insert operation,
\* with entries the caller builds or the store holds.

OrderNames == {"", "a", "b"}

\* the mappings of no entry, of one entry and of two new entries
OrderBatches ==
    {<<>>}
    \cup {<<<<n, r>>>> : n \in OrderNames, r \in NewRefs(1) \cup HeldRefs}
    \cup {<<<<n1, r1>>, <<n2, r2>>>> :
            n1 \in OrderNames, n2 \in OrderNames, r1 \in NewRefs(1), r2 \in NewRefs(2)}

OrderSetApiKey ==
    \E key_name \in OrderNames, api_key \in Secrets :
        /\ Becomes(set_api_key(store, key_name, api_key, NoDescription).store)
        /\ inserted' = inserted \cup {api_key}
        /\ UNCHANGED <<generated, inflight>>

OrderSetApiKeyEntry ==
    \E key_name \in OrderNames, key_entry \in NewRefs(1) \cup HeldRefs :
        /\ Becomes(set_api_key_entry(store, key_name, key_entry).store)
        /\ inserted' = inserted \cup {key_entry.entry.api_key}
        /\ UNCHANGED <<generated, inflight>>

OrderSetApiKeyEntryBatch ==
    \E key_entries \in OrderBatches :
        /\ WellFormed(key_entries)
        /\ Becomes(set_api_key_entry_batch(store, key_entries).store)
        /\ inserted' = inserted \cup
                {key_entries[i][2].entry.api_key : i \in 1..Len(key_entries)}
        /\ UNCHANGED <<generated, inflight>>

NextOrder ==
    \/ OrderSetApiKey
    \/ OrderSetApiKeyEntry
    \/ OrderSetApiKeyEntryBatch

SpecOrder == Init /\ [][NextOrder]_vars

\* ------------------------------------------------------------------ claims

\* the names that have an entry
KnownNames == DictKeys(_api_keys)

\* the entry stored under a name
EntryOf(n) == DictGet(_api_keys, n, None)

\* {entry.api_key: name for name, entry in d.items()}
RECURSIVE InverseOf(_)
InverseOf(d) ==
    IF d = <<>> THEN <<>>
    ELSE FcnSet(InverseOf(SubSeq(d, 1, Len(d) - 1)), d[Len(d)][2].api_key, d[Len(d)][1])

\* C1: the reverse index is exactly the map that takes the api_key of each
\* entry of the forward map to the entry's name: no extra keys, no missing keys
C1_IndexIsInverse == _key2name = InverseOf(_api_keys)

\* C2: when a name whose entry holds secret A, indexed under that name, is
\* given another secret B by set_api_key or by an issuance, a lookup of A finds
\* nothing afterwards and a lookup of B finds the entry stored under the name
C2_RotationEvicts ==
    [][\A n \in Names, A \in Strings, B \in Strings :
         ( /\ n \in KnownNames
           /\ EntryOf(n).api_key = A
           /\ A \in DOMAIN _key2name /\ _key2name[A] = n
           /\ A # B
           /\ \/ \E d \in Descriptions : Becomes(set_api_key(store, n, B, d).store)
              \/ B \in generate_key /\ Becomes(BaseKeyManager_set_api_key(store, n, B).store) )
         => ( /\ get_api_key_entry(store, A)' = None
              /\ get_api_key_entry(store, B)' = EntryOf(n)' )]_vars

\* C3: no two names hold entries with the same api_key
C3_SecretUnique ==
    \A n1 \in KnownNames, n2 \in KnownNames :
        n1 # n2 => EntryOf(n1).api_key # EntryOf(n2).api_key

\* C4: a lookup of the secret a name's entry holds finds an entry that holds
\* that secret (under SpecCreate every entry was inserted by set_api_key or by
\* an issuance)
C4_LookupFindsSecret ==
    \A n \in KnownNames :
        /\ get_api_key_entry(store, EntryOf(n).api_key) # None
        /\ get_api_key_entry(store, EntryOf(n).api_key).api_key = EntryOf(n).api_key


\* C6: for every name that has an entry, get_api_key(name) is the api_key of
\* the entry stored under that name
C6_GetApiKeyByName ==
    \A n \in KnownNames : get_api_key(store, n) = EntryOf(n).api_key

\* C7: for every name that has no entry, get_api_key(name) is the placeholder
C7_PlaceholderForUnknownName ==
    \A n \in Strings \ KnownNames : get_api_key(store, n) = BASE_API_KEY

\* C8: for every secret that is the api_key of no entry of the store,
\* get_allow_models(secret) is the empty sequence
C8_NoModelsForUnknownSecret ==
    \A s \in Strings :
        (\A n \in KnownNames : EntryOf(n).api_key # s) => get_allow_models(store, s) = <<>>

\* C9: for every secret that was never passed to an insert operation,
\* get_api_key_entry(secret) is None
C9_NoneForNeverInserted ==
    \A s \in Strings \ inserted : get_api_key_entry(store, s) = None

\* the allowed_models of the entry store st holds under name n
ModelsOf(st, n) == DictGet(st.api_keys, n, None).allowed_models

\* C10: a grant of m to a known name whose allowed_models lacks m returns True
\* and leaves exactly one m in the list; the same grant made again returns
\* False and leaves the store as the first left it; and so through the
\* manager's set_allow_model
C10_GrantIdempotent ==
    \A n \in KnownNames, m \in Models :
        ~InList(m, EntryOf(n).allowed_models) =>
            LET first == set_model_to_api_key(store, n, m)
                second == set_model_to_api_key(first.store, n, m)
                mfirst == set_allow_model(store, n, m)
                msecond == set_allow_model(mfirst.store, n, m)
            IN  /\ first.val = TRUE
                /\ Count(m, ModelsOf(first.store, n)) = 1
                /\ second = Result(FALSE, first.store)
                /\ mfirst.val = TRUE
                /\ Count(m, ModelsOf(mfirst.store, n)) = 1
                /\ msecond = Result(FALSE, mfirst.store)

\* C10 witness: a name holds one m, put there by a grant (callers build lists
\* with no m or with two), and a further grant of m is refused
C10_Witness ==
    \E n \in KnownNames :
        /\ Count("m", EntryOf(n).allowed_models) = 1
        /\ set_model_to_api_key(store, n, "m") = Result(FALSE, store)

\* C5: a reader never sees the forward map of an insert without its reverse
\* map: once an entry is stored under a name, a lookup of the entry's secret
\* finds that entry, also while the insert that stores it is under way
C5_ReaderSeesBothMaps ==
    \A i \in 1..Len(inflight.todo) :
        get_api_key_entry(store, inflight.todo[i][1]) = EntryOf(inflight.todo[i][2])

\* C11: a grant to a name that has no entry returns False and leaves both
\* dicts, and the sharing among the entries, as they were: no entry is made
C11_GrantToUnknownName ==
    \A n \in Strings \ KnownNames, m \in Models :
        /\ set_model_to_api_key(store, n, m) = Result(FALSE, store)
        /\ set_allow_model(store, n, m) = Result(FALSE, store)

\* C11 witness: the store holds an entry whose list lacks m, and a grant of m
\* to a name that has no entry is refused and leaves that store
C11_Witness ==
    /\ \E n \in KnownNames : EntryOf(n).allowed_models = <<>>
    /\ Len(_api_keys) = 1
    /\ \E n \in Names \ KnownNames :
            set_model_to_api_key(store, n, "m") = Result(FALSE, store)

\* C12: once a grant of m to a name returns True, get_allow_models of the
\* api_key stored in that name's entry contains m
C12_GrantVisibleBySecret ==
    [][\A n \in KnownNames, m \in Models :
         ( /\ set_model_to_api_key(store, n, m).val = TRUE
           /\ Becomes(set_model_to_api_key(store, n, m).store) )
         => InList(m, get_allow_models(store, EntryOf(n).api_key))']_vars

\* C13: set_api_key_active_status(n, b) on a name that has an entry sets the
\* is_active of that entry to b and nothing else: the entry's other fields,
\* the entries that are other objects, the names and _key2name stay as they
\* were, and a lookup of the entry's secret still finds the entry, with
\* is_active = b
C13_ActiveStatusFrame ==
    [][\A n \in KnownNames, b \in BOOLEAN :
         ( /\ Becomes(set_api_key_active_status(store, n, b).store)
           /\ UNCHANGED <<generated, inserted, inflight>> )
         => ( /\ EntryOf(n)' = [EntryOf(n) EXCEPT !.is_active = b]
              /\ \A n2 \in KnownNames :
                    ~SameObject(alias, n, n2) => EntryOf(n2)' = EntryOf(n2)
              /\ [i \in 1..Len(_api_keys) |-> _api_keys[i][1]]
                    = [i \in 1..Len(_api_keys') |-> _api_keys'[i][1]]
              /\ _key2name' = _key2name
              /\ get_api_key_entry(store, EntryOf(n).api_key)' = EntryOf(n)' )]_vars

\* the names of a listing, in its order
NameSeq(items) == [i \in 1..Len(items) |-> items[i][1]]

\* seq followed by the names of names that are not in it yet, in their order
RECURSIVE FirstInsertions(_, _)
FirstInsertions(seq, names) ==
    IF names = <<>> THEN seq
    ELSE FirstInsertions(IF InList(Head(names), seq) THEN seq ELSE Append(seq, Head(names)),
                         Tail(names))

\* the listing store st gives is the current listing followed by the names of
\* names that are new, in their order
Listed(st, names) ==
    NameSeq(get_all_api_key_entries(st))
        = FirstInsertions(NameSeq(get_all_api_key_entries(store)), names)

\* C14: get_all_api_key_entries lists each stored name once, in the order of
\* the names' first insertions: every insert leaves the names listed before it
\* where they were, a replaced name included, and appends the new names in the
\* order of the call
C14_FirstInsertionOrder ==
    /\ \A i \in 1..Len(_api_keys), j \in 1..Len(_api_keys) :
          i # j => _api_keys[i][1] # _api_keys[j][1]
    /\ \A n \in OrderNames, k \in Secrets :
          Listed(set_api_key(store, n, k, NoDescription).store, <<n>>)
    /\ \A n \in OrderNames, r \in NewRefs(1) \cup HeldRefs :
          Listed(set_api_key_entry(store, n, r).store, <<n>>)
    /\ \A b \in OrderBatches :
          WellFormed(b) => Listed(set_api_key_entry_batch(store, b).store, NameSeq(b))

\* C14 witness: three names are listed, not in the order of the strings, and
\* the first of them has had its entry replaced since its first insertion (the
\* index still holds the secret of the entry it had) and is still the first
C14_Witness ==
    /\ NameSeq(get_all_api_key_entries(store)) = <<"b", "", "a">>
    /\ \E k \in DOMAIN _key2name :
            _key2name[k] = "b" /\ EntryOf("b").api_key # k

C16_SetApiKeyOverwrites ==
    \A n \in Names, k \in Secrets, d \in Descriptions :
        LET r == set_api_key(store, n, k, d)
        IN  /\ r.val = APIKeyEntry(k, <<>>, TRUE, d)
            /\ DictGet(r.store.api_keys, n, None) = r.val
            /\ \A n2 \in Strings \ {n} : ~SameObject(r.store.alias, n, n2)
            /\ \A n2 \in KnownNames \ {n} :
                    DictGet(r.store.api_keys, n2, None) = EntryOf(n2)

\* C16 witness: a name holds an entry with a grant and with is_active = False,
\* and set_api_key on that name stores and returns an entry with neither
C16_Witness ==
    \E n \in KnownNames :
        /\ EntryOf(n).allowed_models = <<"m">>
        /\ EntryOf(n).is_active = FALSE
        /\ LET r == set_api_key(store, n, "b", "d")
           IN  /\ r.val = APIKeyEntry("b", <<>>, TRUE, "d")
               /\ DictGet(r.store.api_keys, n, None) = r.val

\* the store that one set_api_key_entry call for each item of key_entries, in
\* the mapping's order, leaves
RECURSIVE EntryByEntry(_, _)
EntryByEntry(st, key_entries) ==
    IF key_entries = <<>> THEN st
    ELSE EntryByEntry(set_api_key_entry(st, Head(key_entries)[1], Head(key_entries)[2]).store,
                      Tail(key_entries))

\* C17: from any store, set_api_key_entry_batch(mapping) leaves the _api_keys
\* and the _key2name that one set_api_key_entry call for each item of the
\* mapping, in the mapping's order, leaves
C17_BatchIsEntryByEntry ==
    \A key_entries \in OrderBatches :
        WellFormed(key_entries) =>
            LET batch == set_api_key_entry_batch(store, key_entries).store
                each == EntryByEntry(store, key_entries)
            IN  /\ batch.api_keys = each.api_keys
                /\ batch.key2name = each.key2name

\* C17 witness: the store holds entries, and a mapping of two entries with one
\* secret, the first under a name the store has and the second under a new
\* name, changes both dicts, the same way batched and entry by entry
C17_Witness ==
    \E key_entries \in OrderBatches :
        /\ WellFormed(key_entries)
        /\ Len(key_entries) = 2
        /\ key_entries[1][1] \in KnownNames
        /\ key_entries[2][1] \notin KnownNames
        /\ key_entries[1][2].entry.api_key = key_entries[2][2].entry.api_key
        /\ LET batch == set_api_key_entry_batch(store, key_entries).store
           IN  /\ batch.api_keys # _api_keys
               /\ batch.key2name # _key2name
               /\ batch.api_keys = EntryByEntry(store, key_entries).api_keys
               /\ batch.key2name = EntryByEntry(store, key_entries).key2name

\* C18: set_api_key_active_status on a name that has no entry returns None
\* and leaves both dicts as they were: no entry is made
C18_StatusOfUnknownName ==
    \A n \in Strings \ KnownNames, b \in BOOLEAN :
        set_api_key_active_status(store, n, b) = Result(None, store)

\* C18 witness: the store holds one entry, which is active, and setting the
\* status of a name that has no entry to False leaves that store
C18_Witness ==
    /\ Len(_api_keys) = 1
    /\ _api_keys[1][2].is_active = TRUE
    /\ \E n \in Names \ KnownNames :
            set_api_key_active_status(store, n, FALSE) = Result(None, store)

\* C19: for every string s, get_api_key_entry(s) is None or an entry whose
\* api_key is s: a lookup never returns an entry that holds another secret
C19_LookupSound ==
    \A s \in Strings :
        LET found == get_api_key_entry(store, s)
        IN  IF found = None THEN TRUE ELSE found.api_key = s

\* C20: between calls, every value of _key2name is a name that has an entry
\* and the api_key of every entry is a key of _key2name; and no call removes a
\* name from _api_keys or a key from _key2name
C20_IndexClosed ==
    /\ [](/\ \A k \in DOMAIN _key2name : _key2name[k] \in KnownNames
          /\ \A n \in KnownNames : EntryOf(n).api_key \in DOMAIN _key2name)
    /\ [][/\ KnownNames \subseteq KnownNames'
          /\ DOMAIN _key2name \subseteq DOMAIN _key2name']_vars

\* C20 witness: the index keeps a secret that no entry holds any more, the
\* name's entry having been replaced, and the secret still maps to a name
\* that has an entry
C20_Witness ==
    \E k \in DOMAIN _key2name :
        /\ \A n \in KnownNames : EntryOf(n).api_key # k
        /\ _key2name[k] \in KnownNames

====
